---- MODULE Spec2Model ----
\* A model of the wasm_plugs plugin host (src/wasm_plugs/src/lib.rs):
\* the registry `Plugs` (items, order, host_fns, store), metadata extraction,
\* add, link, init, call and the function lookup.
EXTENDS Integers, Sequences, FiniteSets, TLC

\* ---------------------------------------------------------------- bounds

\* Longest load order (number of add() calls that may succeed).
MaxPlugs == 3
\* Most host functions pushed by add_host_fn.
MaxHostFns == 1
\* Most instances the store may hold (link() creates one per plugin it links).
MaxInstances == 4

\* ---------------------------------------------------------- basic values

\* Option::None for Plug::instance; an instance is otherwise an index >= 1
\* into the store's instances.
None == 0

\* The zero byte that ends the dependency string in linear memory.
NUL == "NUL"

\* `byte as char`: the character whose code point is the byte's value. An
\* ASCII byte is written as its character; the bytes C3 and A9, which
\* together are the UTF-8 encoding of U+00E9, become U+00C3 and U+00A9.
AsChar(byte) ==
  CASE byte = "0xC3" -> "U+00C3"
    [] byte = "0xA9" -> "U+00A9"
    [] OTHER -> byte

\* Reserved export names.
DEPS_EXPORT == "__deps"
INIT_EXPORT == "__init"

\* Function signatures (params_results); structural equality only.
SigVV == "()->()"
SigVI == "()->i32"
SigIV == "(i32)->()"
SigII == "(i32)->i32"

\* The type of an imported memory, which is not a function type.
MemoryType == "memory"

\* ExternType::func(): Some for a function type, None for any other.
IsFuncType(ty) == ty \in {SigVV, SigVI, SigIV, SigII}

\* A body element that traps (wasm `unreachable`); every other body element
\* is the name of an import the function calls.
TRAP == "unreachable"

\* ---------------------------------------------------------- sequences

Range(s) == {s[i] : i \in 1..Len(s)}

Contains(s, x) == \E i \in 1..Len(s) : s[i] = x

\* Index of the last occurrence of c in s, 0 when absent.
LastIndexOf(s, c) ==
  LET I == {i \in 1..Len(s) : s[i] = c}
  IN  IF I = {} THEN 0 ELSE CHOOSE i \in I : \A j \in I : j <= i

\* ------------------------------------------------------------- modules
\* A compiled module, as the engine exposes it:
\*   imports : sequence of [module, name, sig]
\*   exports : sequence of [name, kind, sig, body]; kind is "func" or "memory"
\*   depsPtr : the address the __deps export returns
\*   memory  : the bytes of the default linear memory, address 0 first

Imp(n, s) == [module |-> "env", name |-> n, sig |-> s]

Fn(n, s, b) == [name |-> n, kind |-> "func", sig |-> s, body |-> b]

Mem == [name |-> "memory", kind |-> "memory", sig |-> "", body |-> <<>>]

\* exports f, mul and an initializer; imports the host function print
ModA ==
  [imports |-> <<Imp("print", SigIV)>>,
   exports |-> <<Mem, Fn("f", SigII, <<"print">>), Fn("mul", SigII, <<"print">>),
                 Fn(INIT_EXPORT, SigVV, <<"print">>)>>,
   depsPtr |-> 0, memory |-> <<NUL>>]

\* imports f from its dependency "a"; also exports mul (as plug4 does)
ModB ==
  [imports |-> <<Imp("print", SigIV), Imp("f", SigII)>>,
   exports |-> <<Mem, Fn(DEPS_EXPORT, SigVI, <<>>), Fn("g", SigII, <<"f", "print">>),
                 Fn("mul", SigII, <<"print">>)>>,
   depsPtr |-> 1, memory |-> <<NUL, "a", NUL>>]

\* no imports at all, declares the dependency "b"
ModC ==
  [imports |-> <<>>,
   exports |-> <<Mem, Fn(DEPS_EXPORT, SigVI, <<>>), Fn("h", SigVV, <<>>)>>,
   depsPtr |-> 0, memory |-> <<"b", NUL>>]

\* imports f, declares "c;a"
ModD ==
  [imports |-> <<Imp("f", SigII)>>,
   exports |-> <<Mem, Fn(DEPS_EXPORT, SigVI, <<>>), Fn("g", SigII, <<"f">>)>>,
   depsPtr |-> 0, memory |-> <<"c", ";", "a", NUL>>]

\* a second exporter of f, without imports or dependencies
ModA2 ==
  [imports |-> <<>>,
   exports |-> <<Fn("f", SigII, <<>>)>>,
   depsPtr |-> 0, memory |-> <<>>]

\* an exporter of f under another signature
ModA3 ==
  [imports |-> <<>>,
   exports |-> <<Fn("f", SigVV, <<>>)>>,
   depsPtr |-> 0, memory |-> <<>>]

\* imports q (exported by nobody) and f, declares "a"
ModE ==
  [imports |-> <<Imp("q", SigVV), Imp("f", SigII)>>,
   exports |-> <<Mem, Fn(DEPS_EXPORT, SigVI, <<>>), Fn("h", SigVV, <<"q">>)>>,
   depsPtr |-> 0, memory |-> <<"a", NUL>>]

\* imports f, declares "c"
ModG ==
  [imports |-> <<Imp("f", SigII)>>,
   exports |-> <<Mem, Fn(DEPS_EXPORT, SigVI, <<>>), Fn("g", SigII, <<"f">>)>>,
   depsPtr |-> 2, memory |-> <<"x", NUL, "c", NUL>>]

\* imports f but declares no dependency; exports a function f of its own
ModF ==
  [imports |-> <<Imp("f", SigII)>>,
   exports |-> <<Fn("g", SigII, <<"f">>), Fn("f", SigII, <<>>)>>,
   depsPtr |-> 0, memory |-> <<>>]

\* exports the dependency descriptor but no memory
ModH ==
  [imports |-> <<>>,
   exports |-> <<Fn(DEPS_EXPORT, SigVI, <<>>), Fn("h", SigVV, <<>>)>>,
   depsPtr |-> 0, memory |-> <<>>]

\* an initializer that calls print and then traps
ModT ==
  [imports |-> <<Imp("print", SigIV)>>,
   exports |-> <<Fn(INIT_EXPORT, SigVV, <<"print", TRAP>>)>>,
   depsPtr |-> 0, memory |-> <<>>]

\* an export named like the initializer, under another signature
ModI ==
  [imports |-> <<>>,
   exports |-> <<Fn(INIT_EXPORT, SigII, <<>>)>>,
   depsPtr |-> 0, memory |-> <<>>]

\* an initializer that calls print and returns
ModK ==
  [imports |-> <<Imp("print", SigIV)>>,
   exports |-> <<Fn(INIT_EXPORT, SigVV, <<"print">>), Fn("h", SigVV, <<>>)>>,
   depsPtr |-> 0, memory |-> <<>>]

\* no imports; exports f and a function named like the host function print
ModAP ==
  [imports |-> <<>>,
   exports |-> <<Fn("f", SigII, <<>>), Fn("print", SigIV, <<>>)>>,
   depsPtr |-> 0, memory |-> <<>>]

\* imports f twice and print once, declares "a"
ModDup ==
  [imports |-> <<Imp("f", SigII), Imp("print", SigIV), Imp("f", SigII)>>,
   exports |-> <<Mem, Fn(DEPS_EXPORT, SigVI, <<>>), Fn("g", SigII, <<"f", "print">>)>>,
   depsPtr |-> 0, memory |-> <<"a", NUL>>]

\* imports a function from a module other than "env"
ModW ==
  [imports |-> <<[module |-> "wasi", name |-> "q", sig |-> SigVV]>>,
   exports |-> <<Fn("h", SigVV, <<>>)>>,
   depsPtr |-> 0, memory |-> <<>>]

\* imports its memory from "env"
ModM ==
  [imports |-> <<Imp("f", SigII), Imp("memory", MemoryType)>>,
   exports |-> <<Fn("h", SigVV, <<>>)>>,
   depsPtr |-> 0, memory |-> <<>>]

\* declares one dependency whose name is U+00E9, in UTF-8
ModU ==
  [imports |-> <<>>,
   exports |-> <<Mem, Fn(DEPS_EXPORT, SigVI, <<>>), Fn("h", SigVV, <<>>)>>,
   depsPtr |-> 0, memory |-> <<"0xC3", "0xA9", NUL>>]

\* imports print under a signature that is not the host function's
ModPV ==
  [imports |-> <<Imp("print", SigVV)>>,
   exports |-> <<Fn("h", SigVV, <<"print">>)>>,
   depsPtr |-> 0, memory |-> <<>>]

\* ---------------------------------------------------------------- files
\* A plugin file: its path (a sequence of characters) and the module
\* compiled from its bytes.

File(p, m) == [path |-> p, module |-> m]

\* The files of the calling scenarios: an exporter, an importer that
\* declares it, and a second exporter.
CoreFiles ==
  { File(<<"a", ".", "w">>, ModA),
    File(<<"b", ".", "w">>, ModB),
    File(<<"c", ".", "w">>, ModA2) }

\* All files: the above, the plugins with several, missing, undeclared,
\* unresolvable or mistyped dependencies, and one whose metadata extraction
\* fails.
Files ==
  CoreFiles \cup
  { File(<<"b", ".", "w">>, ModD),
    File(<<"b", ".", "w">>, ModG),
    File(<<"c", ".", "w">>, ModC),
    File(<<"c", ".", "w">>, ModA3),
    File(<<"c", ".", "w">>, ModE),
    File(<<"c", ".", "w">>, ModH),
    File(<<"x", "/", "b", ".", "w">>, ModF) }

\* The files of the initialization scenarios: plugins with a working, a
\* trapping, a mistyped and no initializer.
InitFiles ==
  { File(<<"a", ".", "w">>, ModA),
    File(<<"b", ".", "w">>, ModB),
    File(<<"b", ".", "w">>, ModK),
    File(<<"c", ".", "w">>, ModT),
    File(<<"c", ".", "w">>, ModI) }

\* The files of the metadata scenarios: imports that are repeated, that
\* name the host function, that come from another module or are no function;
\* dependency strings of one and several names, in ASCII and not.
MetaFiles ==
  { File(<<"a", ".", "w">>, ModAP),
    File(<<"b", ".", "w">>, ModDup),
    File(<<"b", ".", "w">>, ModD),
    File(<<"c", ".", "w">>, ModA2),
    File(<<"c", ".", "w">>, ModW),
    File(<<"c", ".", "w">>, ModM),
    File(<<"c", ".", "w">>, ModU),
    File(<<"c", ".", "w">>, ModPV) }

\* Host functions the embedding application may register.
HostFn(n, s) == [name |-> n, sig |-> s]

HostFnChoices == { HostFn("print", SigIV) }

\* Plugin names call() may be given.
PlugNames == { <<"a">>, <<"b">>, <<"c">> }

\* The functions call() may be asked for: a name and the signature <P, R>.
Func(n, s) == [name |-> n, sig |-> s]

CallChoices == { Func("f", SigII), Func("g", SigII), Func("g", SigVV) }

\* ---------------------------------------------------------------- errors
\* A wasmtime::Error, by its message: the kind is the fixed text of the
\* message, the other fields are the values formatted into it.

Err(k, plug, dep, func, names) ==
  [kind |-> k, plug |-> plug, dep |-> dep, func |-> func, names |-> names]

NoErr == Err("", <<>>, <<>>, "", <<>>)

\* "Dependency '{dep_name}' in plugin '{name}' hasn't been instantiated yet"
ErrOrdering(dep_name, name) ==
  Err("Dependency in plugin hasn't been instantiated yet", name, dep_name, "", <<>>)

\* "Dependency '{dep_name}' doesn't have export '{imp}' required by plugin '{name}'"
ErrNoExport(dep_name, imp, name) ==
  Err("Dependency doesn't have export required by plugin", name, dep_name, imp, <<>>)

\* "'{dep_name}' is not a valid dependency"
ErrInvalidDep(dep_name) == Err("is not a valid dependency", <<>>, dep_name, "", <<>>)

\* "Plugin '{name}' has unresolved imports: {imports:?}"
ErrUnresolved(name, imports) ==
  Err("Plugin has unresolved imports", name, <<>>, "", imports)

\* "Plugin '{plug}' hasn't been instantiated yet"
ErrNotInstantiated(plug) ==
  Err("Plugin hasn't been instantiated yet", plug, <<>>, "", <<>>)

\* "Couldn't find function '{func}' in plugin '{plug}'"
ErrNoPlugin(func, plug) == Err("Couldn't find function in plugin", plug, <<>>, func, <<>>)

\* "Couldn't find 'memory' export"
ErrNoMemory == Err("Couldn't find 'memory' export", <<>>, <<>>, "", <<>>)

\* Errors raised by the engine (wasmtime), by what they report.
ErrUnknownImport(n) == Err("wasmtime: unknown import", <<>>, <<>>, n, <<>>)

ErrImportType(n) == Err("wasmtime: incompatible import type", <<>>, <<>>, n, <<>>)

ErrDefinedTwice(n) == Err("wasmtime: import defined twice", <<>>, <<>>, n, <<>>)

ErrMemoryRead == Err("wasmtime: out of bounds memory access", <<>>, <<>>, "", <<>>)

ErrTrap(n) == Err("wasmtime: wasm trap", <<>>, <<>>, n, <<>>)

\* Not a returned error: the panic of Option::unwrap on None, which unwinds
\* through the operation.
Panic == Err("panic: called Option::unwrap() on a None value", <<>>, <<>>, "", <<>>)

ErrNoFuncExport(func) ==
  Err("wasmtime: failed to find function export", <<>>, <<>>, func, <<>>)

ErrFuncType(func) ==
  Err("wasmtime: failed to convert function to given type", <<>>, <<>>, func, <<>>)

\* ---------------------------------------------------------------- linker
\* A wasmtime Linker: a map from <<module, name>> to the defined item,
\* [sig, kind, inst, name]: kind "stub" (extract_metadata's default
\* responder), "host" (a host function) or "export" (the export `name` of
\* the store's instance `inst`).

Item(s, k, i, n) == [sig |-> s, kind |-> k, inst |-> i, name |-> n]

EmptyLinker == [k \in {} |-> Item("", "", None, "")]

Key(n) == <<"env", n>>

\* Linker::define / Linker::func_new: shadowing is off, a second definition
\* of a key is an error.
Define(linker, n, item) ==
  IF Key(n) \in DOMAIN linker
  THEN [ok |-> FALSE, err |-> ErrDefinedTwice(n), linker |-> linker]
  ELSE [ok |-> TRUE, err |-> NoErr,
        linker |-> [k \in DOMAIN linker \cup {Key(n)} |->
                      IF k = Key(n) THEN item ELSE linker[k]]]

ImportKey(imp) == <<imp.module, imp.name>>

\* Linker::instantiate: every import of the module must be defined (the
\* first undefined one is reported as an UnknownImportError) and of the
\* import's type.
Instantiate(linker, module) ==
  LET missing  == {i \in 1..Len(module.imports) :
                     ImportKey(module.imports[i]) \notin DOMAIN linker}
      mistyped == {i \in 1..Len(module.imports) :
                     /\ ImportKey(module.imports[i]) \in DOMAIN linker
                     /\ linker[ImportKey(module.imports[i])].sig # module.imports[i].sig}
      first(S) == CHOOSE i \in S : \A j \in S : i <= j
  IN  IF missing # {}
      THEN [ok |-> FALSE, unknown |-> TRUE, imp |-> module.imports[first(missing)],
            err |-> ErrUnknownImport(module.imports[first(missing)].name)]
      ELSE IF mistyped # {}
      THEN [ok |-> FALSE, unknown |-> FALSE, imp |-> module.imports[first(mistyped)],
            err |-> ErrImportType(module.imports[first(mistyped)].name)]
      ELSE [ok |-> TRUE, unknown |-> FALSE, imp |-> Imp("", ""), err |-> NoErr]

\* ------------------------------------------------------- extract_metadata

\* IsHostFn finding no name in the table.
IsHostFn_Never(host_fns, imp) == FALSE

IsHostFn(host_fns, imp) == \E i \in 1..Len(host_fns) : host_fns[i].name = imp

\* The speculative-instantiation loop: instantiate, and on an unknown import
\* define a stub of the import's function type under "env" and retry; the
\* type of an unknown import that is not a function is unwrapped all the same
\* (line 85).
RECURSIVE StubLoop(_, _, _, _, _)
StubLoop(host_fns, module, linker, imports, attempts) ==
  LET r == Instantiate(linker, module)
  IN  IF r.ok
      THEN [ok |-> TRUE, err |-> NoErr, imports |-> imports, attempts |-> attempts + 1]
      ELSE IF ~r.unknown
      THEN [ok |-> FALSE, err |-> r.err, imports |-> imports, attempts |-> attempts + 1]
      ELSE IF ~IsFuncType(r.imp.sig)
      THEN [ok |-> FALSE, err |-> Panic, imports |-> imports, attempts |-> attempts + 1]
      ELSE LET d == Define(linker, r.imp.name, Item(r.imp.sig, "stub", None, r.imp.name))
           IN  IF ~d.ok
               THEN [ok |-> FALSE, err |-> d.err, imports |-> imports,
                     attempts |-> attempts + 1]
               ELSE StubLoop(host_fns, module, d.linker,
                             IF IsHostFn(host_fns, r.imp.name)
                             THEN imports ELSE Append(imports, r.imp.name),
                             attempts + 1)

\* The byte loop over linear memory: ';' starts a new name, any other byte
\* is pushed onto the last name, the zero byte ends the string.
RECURSIVE ReadDeps(_, _, _)
ReadDeps(memory, deps_ptr, deps) ==
  IF deps_ptr >= Len(memory)
  THEN [ok |-> FALSE, err |-> ErrMemoryRead, deps |-> deps]
  ELSE LET c == memory[deps_ptr + 1]
       IN  IF c = NUL THEN [ok |-> TRUE, err |-> NoErr, deps |-> deps]
           ELSE IF c = ";" THEN ReadDeps(memory, deps_ptr + 1, Append(deps, <<>>))
           ELSE ReadDeps(memory, deps_ptr + 1,
                         [deps EXCEPT ![Len(deps)] = Append(@, AsChar(c))])

HasExport(module, n) == \E i \in 1..Len(module.exports) : module.exports[i].name = n

GetExport(module, n) ==
  module.exports[CHOOSE i \in 1..Len(module.exports) : module.exports[i].name = n]

\* Instance::get_typed_func: the export must exist, be a function and have
\* exactly the asked signature.
GetTypedFunc(module, n, sig) ==
  IF ~HasExport(module, n) \/ GetExport(module, n).kind # "func"
  THEN [ok |-> FALSE, err |-> ErrNoFuncExport(n)]
  ELSE IF GetExport(module, n).sig # sig
  THEN [ok |-> FALSE, err |-> ErrFuncType(n)]
  ELSE [ok |-> TRUE, err |-> NoErr]

ExportNames(module) == [i \in 1..Len(module.exports) |-> module.exports[i].name]

\* The optional dependency descriptor: absent (or of another type) gives no
\* dependencies; present, it is called and the string at its result is read.
ExtractDeps(module) ==
  IF ~GetTypedFunc(module, DEPS_EXPORT, SigVI).ok
  THEN [ok |-> TRUE, err |-> NoErr, deps |-> <<>>]
  ELSE IF Contains(GetExport(module, DEPS_EXPORT).body, TRAP)
  THEN [ok |-> FALSE, err |-> ErrTrap(DEPS_EXPORT), deps |-> <<>>]
  ELSE IF ~(HasExport(module, "memory") /\ GetExport(module, "memory").kind = "memory")
  THEN [ok |-> FALSE, err |-> ErrNoMemory, deps |-> <<>>]
  ELSE ReadDeps(module.memory, module.depsPtr, << <<>> >>)

extract_metadata(host_fns, module) ==
  LET l == StubLoop(host_fns, module, EmptyLinker, <<>>, 0)
      d == ExtractDeps(module)
  IN  IF ~l.ok
      THEN [ok |-> FALSE, err |-> l.err, deps |-> <<>>, exports |-> <<>>,
            imports |-> <<>>, attempts |-> l.attempts]
      ELSE IF ~d.ok
      THEN [ok |-> FALSE, err |-> d.err, deps |-> <<>>, exports |-> <<>>,
            imports |-> <<>>, attempts |-> l.attempts]
      ELSE [ok |-> TRUE, err |-> NoErr, deps |-> d.deps,
            exports |-> ExportNames(module), imports |-> l.imports,
            attempts |-> l.attempts]

\* -------------------------------------------------------------- add: name
\* The plugin's name is the file name without its extension.

\* Path::file_name: what follows the last '/'.
FileName(path) == SubSeq(path, LastIndexOf(path, "/") + 1, Len(path))

\* Path::extension: what follows the last '.' of the file name.
Extension(path) ==
  LET fnm == FileName(path)
  IN  SubSeq(fnm, LastIndexOf(fnm, ".") + 1, Len(fnm))

\* &name[..len - ext_len - 1]
PlugName(path) ==
  LET fnm == FileName(path)
  IN  SubSeq(fnm, 1, Len(fnm) - Len(Extension(path)) - 1)

\* ---------------------------------------------------------------- state

VARIABLES
  host_fns,   \* Plugs::host_fns.fns: sequence of [name, sig]
  items,      \* Plugs::items: plugin name -> Plug
  order,      \* Plugs::order: plugin names in load order
  store,      \* Plugs::store's data, PlugContext(id, state)
  instances,  \* the instances the store holds, in creation order
  last        \* the last operation and what it returned

vars == <<host_fns, items, order, store, instances, last>>

\* A Plug (struct Plug<T>).
Plug(id, module, linker, metadata) ==
  [id |-> id, module |-> module, linker |-> linker, instance |-> None,
   deps |-> metadata.deps, exports |-> metadata.exports, imports |-> metadata.imports]

NoItems == [n \in {} |-> Plug(0, ModA2, EmptyLinker, extract_metadata(<<>>, ModA2))]

\* HashMap::insert: the entry for the key is created or replaced.
Insert(map, k, v) == [n \in DOMAIN map \cup {k} |-> IF n = k THEN v ELSE map[n]]

\* What an operation returned, and what ran while it did:
\*   op, plug, func, sig : the operation and its arguments
\*   ok, err             : Ok(..) or Err(err)
\*   at                  : for link, the position in `order` it stopped at
\*                         (one past the end when it returned Ok); for add,
\*                         the instantiations extract_metadata attempted
\*   trace               : the functions entered and host functions called,
\*                         each with the active id at that moment
Result(op, plug, func, sig, ok, err, at, trace) ==
  [op |-> op, plug |-> plug, func |-> func, sig |-> sig, ok |-> ok, err |-> err,
   at |-> at, trace |-> trace]

\* The shared state T before any host function ran.
NoState == -1

\* ------------------------------------------------------------ host bridge

\* link_host defining nothing.
link_host_Nothing(fns, k, linker) == [ok |-> TRUE, err |-> NoErr, linker |-> linker]

\* link_host: define every host function in the plug's linker, in order.
RECURSIVE link_host(_, _, _)
link_host(fns, k, linker) ==
  IF k > Len(fns) THEN [ok |-> TRUE, err |-> NoErr, linker |-> linker]
  ELSE LET d == Define(linker, fns[k].name, Item(fns[k].sig, "host", None, fns[k].name))
       IN  IF ~d.ok THEN d ELSE link_host(fns, k + 1, d.linker)

\* ------------------------------------------------------------------- link

\* LinkImports with the dependency's missing instance taken for a missing
\* export: the import is kept for the next dependency instead of failing.
RECURSIVE LinkImports_InstanceUnchecked(_, _, _, _, _, _, _, _)
LinkImports_InstanceUnchecked(insts, p_dep, dep_name, name, imports, i, res, to_import) ==
  IF i > Len(imports)
  THEN [ok |-> TRUE, err |-> NoErr, imports |-> res, to_import |-> to_import]
  ELSE LET imp == imports[i]
       IN  IF Contains(p_dep.exports, imp) /\ p_dep.instance # None
           THEN LinkImports_InstanceUnchecked(insts, p_dep, dep_name, name, imports,
                  i + 1, res,
                  Append(to_import,
                    [imp |-> imp,
                     export |-> Item(GetExport(insts[p_dep.instance].module, imp).sig,
                                     "export", p_dep.instance, imp)]))
           ELSE LinkImports_InstanceUnchecked(insts, p_dep, dep_name, name, imports,
                  i + 1, Append(res, imp), to_import)

\* The loop over the plugin's unresolved imports for one dependency
\* (lines 204-233): an import the dependency exports is taken from the
\* dependency's instance, the others are kept for the next dependency.
RECURSIVE LinkImports(_, _, _, _, _, _, _, _)
LinkImports(insts, p_dep, dep_name, name, imports, i, res, to_import) ==
  IF i > Len(imports)
  THEN [ok |-> TRUE, err |-> NoErr, imports |-> res, to_import |-> to_import]
  ELSE LET imp == imports[i]
       IN  IF Contains(p_dep.exports, imp)
           THEN IF p_dep.instance = None
                THEN [ok |-> FALSE, err |-> ErrOrdering(dep_name, name),
                      imports |-> res, to_import |-> to_import]
                ELSE IF ~HasExport(insts[p_dep.instance].module, imp)
                THEN [ok |-> FALSE, err |-> ErrNoExport(dep_name, imp, name),
                      imports |-> res, to_import |-> to_import]
                ELSE LinkImports(insts, p_dep, dep_name, name, imports, i + 1, res,
                       Append(to_import,
                         [imp |-> imp,
                          export |-> Item(GetExport(insts[p_dep.instance].module, imp).sig,
                                          "export", p_dep.instance, imp)]))
           ELSE LinkImports(insts, p_dep, dep_name, name, imports, i + 1,
                            Append(res, imp), to_import)

\* The loop over the declared dependencies (lines 202-239).
RECURSIVE LinkDepsFrom(_, _, _, _, _, _, _)
LinkDepsFrom(its, insts, name, deps, j, imports, to_import) ==
  IF j > Len(deps)
  THEN [ok |-> TRUE, err |-> NoErr, imports |-> imports, to_import |-> to_import]
  ELSE IF deps[j] \in DOMAIN its
  THEN LET r == LinkImports(insts, its[deps[j]], deps[j], name, imports, 1, <<>>, to_import)
       IN  IF ~r.ok THEN r
           ELSE LinkDepsFrom(its, insts, name, deps, j + 1, r.imports, r.to_import)
  ELSE [ok |-> FALSE, err |-> ErrInvalidDep(deps[j]),
        imports |-> imports, to_import |-> to_import]

\* The registered names as a sequence, in some order.
RECURSIVE SeqOfSet(_)
SeqOfSet(S) ==
  IF S = {} THEN <<>>
  ELSE LET x == CHOOSE x \in S : TRUE IN <<x>> \o SeqOfSet(S \ {x})

\* LinkDeps searching the exports of every registered plugin but the plugin
\* itself, declared or not.
LinkDeps_WholeRegistry(its, insts, name, deps, j, imports, to_import) ==
  LinkDepsFrom(its, insts, name, SeqOfSet(DOMAIN its \ {name}), j, imports, to_import)

\* A sequence back to front.
Reverse(s) == [i \in 1..Len(s) |-> s[Len(s) + 1 - i]]

\* LinkDeps consulting the declared dependencies last to first.
LinkDeps_Reversed(its, insts, name, deps, j, imports, to_import) ==
  LinkDepsFrom(its, insts, name, Reverse(deps), j, imports, to_import)

\* for dep_name in deps.iter() (line 202), from the j-th dependency on.
LinkDeps(its, insts, name, deps, j, imports, to_import) ==
  LinkDepsFrom(its, insts, name, deps, j, imports, to_import)

\* ResolveImports with the test on the import count inverted.
ResolveImports_Inverted(its, insts, name) ==
  IF Len(its[name].imports) = 0
  THEN LinkDeps(its, insts, name, its[name].deps, 1, its[name].imports, <<>>)
  ELSE [ok |-> TRUE, err |-> NoErr, imports |-> its[name].imports, to_import |-> <<>>]

\* Lines 201-240: the dependencies are consulted only when the plugin has
\* required imports.
ResolveImports(its, insts, name) ==
  IF Len(its[name].imports) > 0
  THEN LinkDeps(its, insts, name, its[name].deps, 1, its[name].imports, <<>>)
  ELSE [ok |-> TRUE, err |-> NoErr, imports |-> its[name].imports, to_import |-> <<>>]

\* Lines 251-253: define the collected exports in the plugin's own linker.
RECURSIVE DefineAll(_, _, _)
DefineAll(linker, to_import, k) ==
  IF k > Len(to_import) THEN [ok |-> TRUE, err |-> NoErr, linker |-> linker]
  ELSE LET d == Define(linker, to_import[k].imp, to_import[k].export)
       IN  IF ~d.ok THEN d ELSE DefineAll(d.linker, to_import, k + 1)

\* An instance the store holds: the plugin it was made for, its module and
\* the items its imports were bound to.
Instance(p, linker) == [owner |-> p.id, module |-> p.module, linker |-> linker]

\* LinkPlug instantiating the plugin before it reports unresolved imports.
LinkPlug_InstantiatesAnyway(its, insts, name) ==
  LET p == its[name]
      r == ResolveImports(its, insts, name)
      d == DefineAll(p.linker, r.to_import, 1)
      defined == [its EXCEPT ![name].linker = d.linker]
      i == Instantiate(d.linker, p.module)
  IN  IF ~r.ok THEN [ok |-> FALSE, err |-> r.err, items |-> its, instances |-> insts]
      ELSE IF Len(r.imports) > 0
      THEN [ok |-> FALSE, err |-> ErrUnresolved(name, r.imports),
            items |-> [its EXCEPT ![name].instance = Len(insts) + 1],
            instances |-> Append(insts, Instance(p, p.linker))]
      ELSE IF ~d.ok
      THEN [ok |-> FALSE, err |-> d.err, items |-> defined, instances |-> insts]
      ELSE IF ~i.ok
      THEN [ok |-> FALSE, err |-> i.err, items |-> defined, instances |-> insts]
      ELSE [ok |-> TRUE, err |-> NoErr,
            items |-> [defined EXCEPT ![name].instance = Len(insts) + 1],
            instances |-> Append(insts, Instance(p, d.linker))]

\* One iteration of link()'s loop over `order` (lines 192-256).
LinkPlug(its, insts, name) ==
  LET p == its[name]
      r == ResolveImports(its, insts, name)
      d == DefineAll(p.linker, r.to_import, 1)
      defined == [its EXCEPT ![name].linker = d.linker]
      i == Instantiate(d.linker, p.module)
  IN  IF ~r.ok THEN [ok |-> FALSE, err |-> r.err, items |-> its, instances |-> insts]
      ELSE IF Len(r.imports) > 0
      THEN [ok |-> FALSE, err |-> ErrUnresolved(name, r.imports),
            items |-> its, instances |-> insts]
      ELSE IF ~d.ok
      THEN [ok |-> FALSE, err |-> d.err, items |-> defined, instances |-> insts]
      ELSE IF ~i.ok
      THEN [ok |-> FALSE, err |-> i.err, items |-> defined, instances |-> insts]
      ELSE [ok |-> TRUE, err |-> NoErr,
            items |-> [defined EXCEPT ![name].instance = Len(insts) + 1],
            instances |-> Append(insts, Instance(p, d.linker))]

\* link(): every entry of `order`, in order, stopping at the first error.
RECURSIVE LinkFrom(_, _, _, _)
LinkFrom(its, insts, ord, k) ==
  IF k > Len(ord) THEN [ok |-> TRUE, err |-> NoErr, items |-> its, instances |-> insts,
                         at |-> k]
  ELSE LET r == LinkPlug(its, insts, ord[k])
       IN  IF ~r.ok THEN [ok |-> FALSE, err |-> r.err, items |-> r.items,
                          instances |-> r.instances, at |-> k]
           ELSE LinkFrom(r.items, r.instances, ord, k + 1)

\* ------------------------------------------------------------- execution
\* Running an exported function of an instance: each body element is a trap
\* or a call of an import, which runs the host function or the export the
\* import was bound to. Nothing on this path writes the active id.

Event(kind, inst, owner, name, id) ==
  [kind |-> kind, inst |-> inst, owner |-> owner, name |-> name, id |-> id]

RECURSIVE RunBody(_, _, _, _, _, _)
RunBody(insts, i, body, k, id, trace) ==
  IF k > Len(body) THEN [trapped |-> FALSE, trace |-> trace]
  ELSE IF body[k] = TRAP THEN [trapped |-> TRUE, trace |-> trace]
  ELSE LET item == insts[i].linker[Key(body[k])]
           r == IF item.kind = "host"
                THEN [trapped |-> FALSE,
                      trace |-> Append(trace,
                                  Event("host", i, insts[i].owner, item.name, id))]
                ELSE RunBody(insts, item.inst,
                             GetExport(insts[item.inst].module, item.name).body, 1, id,
                             Append(trace, Event("enter", item.inst,
                                                 insts[item.inst].owner, item.name, id)))
       IN  IF r.trapped THEN r ELSE RunBody(insts, i, body, k + 1, id, r.trace)

\* TypedFunc::call on the export `func` of instance i, with `id` the active
\* id. The trace starts with the "entry" of the host's call; "enter" marks a
\* function reached through an import, "host" a host function.
RunFunc(insts, i, func, id) ==
  RunBody(insts, i, GetExport(insts[i].module, func).body, 1, id,
          <<Event("entry", i, insts[i].owner, func, id)>>)

HostEvents(trace) == SelectSeq(trace, LAMBDA e : e.kind = "host")

\* The shared state T after the host functions of `trace` ran: a host
\* function records the active id it was called under.
StateAfter(state, trace) ==
  IF HostEvents(trace) = <<>> THEN state
  ELSE HostEvents(trace)[Len(HostEvents(trace))].id

\* ----------------------------------------------------------------- lookup

\* get_func_with_id reporting an unregistered plugin the way the engine
\* reports a missing export.
get_func_with_id_Conflated(its, insts, plug, func, sig) ==
  IF plug \in DOMAIN its
  THEN IF its[plug].instance # None
       THEN LET f == GetTypedFunc(insts[its[plug].instance].module, func, sig)
            IN  [ok |-> f.ok, err |-> f.err, id |-> its[plug].id,
                 inst |-> its[plug].instance]
       ELSE [ok |-> FALSE, err |-> ErrNotInstantiated(plug), id |-> 0, inst |-> None]
  ELSE [ok |-> FALSE, err |-> ErrNoFuncExport(func), id |-> 0, inst |-> None]

\* get_func_with_id (lines 299-318).
get_func_with_id(its, insts, plug, func, sig) ==
  IF plug \in DOMAIN its
  THEN IF its[plug].instance # None
       THEN LET f == GetTypedFunc(insts[its[plug].instance].module, func, sig)
            IN  [ok |-> f.ok, err |-> f.err, id |-> its[plug].id,
                 inst |-> its[plug].instance]
       ELSE [ok |-> FALSE, err |-> ErrNotInstantiated(plug), id |-> 0, inst |-> None]
  ELSE [ok |-> FALSE, err |-> ErrNoPlugin(func, plug), id |-> 0, inst |-> None]

\* set_current_id that leaves the active id as it is.
set_current_id_Dropped(st, plugin_id) == st

\* set_current_id (lines 286-288).
set_current_id(st, plugin_id) == [st EXCEPT !.id = plugin_id]

\* ------------------------------------------------------------------- init

\* InitFrom going on to the next plugin after an initializer failed.
RECURSIVE InitFrom_NoAbort(_, _, _, _, _, _)
InitFrom_NoAbort(its, insts, names, k, st, trace) ==
  IF k > Len(names) THEN [ok |-> TRUE, err |-> NoErr, store |-> st, trace |-> trace]
  ELSE LET f == get_func_with_id(its, insts, names[k], INIT_EXPORT, SigVV)
           entered == set_current_id(st, f.id)
           r == RunFunc(insts, f.inst, INIT_EXPORT, entered.id)
           st2 == [entered EXCEPT !.state = StateAfter(st.state, r.trace)]
       IN  IF ~f.ok THEN InitFrom_NoAbort(its, insts, names, k + 1, st, trace)
           ELSE InitFrom_NoAbort(its, insts, names, k + 1, st2, trace \o r.trace)

\* init()'s loop over the load order (lines 263-268): a plugin whose lookup
\* of "__init" is Ok is entered and run; any Err of the lookup is skipped.
RECURSIVE InitFrom(_, _, _, _, _, _)
InitFrom(its, insts, names, k, st, trace) ==
  IF k > Len(names) THEN [ok |-> TRUE, err |-> NoErr, store |-> st, trace |-> trace]
  ELSE LET f == get_func_with_id(its, insts, names[k], INIT_EXPORT, SigVV)
           entered == set_current_id(st, f.id)
           r == RunFunc(insts, f.inst, INIT_EXPORT, entered.id)
           st2 == [entered EXCEPT !.state = StateAfter(st.state, r.trace)]
       IN  IF ~f.ok THEN InitFrom(its, insts, names, k + 1, st, trace)
           ELSE IF r.trapped
           THEN [ok |-> FALSE, err |-> ErrTrap(INIT_EXPORT), store |-> st2,
                 trace |-> trace \o r.trace]
           ELSE InitFrom(its, insts, names, k + 1, st2, trace \o r.trace)

\* ---------------------------------------------------------------- actions

\* Plugs::new (lines 44-51).
Init ==
  /\ host_fns = <<>>
  /\ items = NoItems
  /\ order = <<>>
  /\ store = [id |-> 0, state |-> NoState]
  /\ instances = <<>>
  /\ last = Result("new", <<>>, "", "", TRUE, NoErr, 0, <<>>)

\* add_host_fn (lines 53-61).
add_host_fn(func) ==
  /\ Len(host_fns) < MaxHostFns
  /\ host_fns' = Append(host_fns, func)
  /\ last' = Result("add_host_fn", <<>>, func.name, func.sig, TRUE, NoErr, 0, <<>>)
  /\ UNCHANGED <<items, order, store, instances>>

\* add (lines 149-180), for a file whose bytes compile.
add(file) ==
  LET name == PlugName(file.path)
      metadata == extract_metadata(host_fns, file.module)
      linker == link_host(host_fns, 1, EmptyLinker)
  IN  /\ Len(order) < MaxPlugs
      /\ IF ~metadata.ok
         THEN /\ last' = Result("add", name, "", "", FALSE, metadata.err,
                                metadata.attempts, <<>>)
              /\ UNCHANGED <<items, order>>
         ELSE IF ~linker.ok
         THEN /\ last' = Result("add", name, "", "", FALSE, linker.err,
                                metadata.attempts, <<>>)
              /\ UNCHANGED <<items, order>>
         ELSE /\ items' = Insert(items, name,
                                 Plug(Len(order), file.module, linker.linker, metadata))
              /\ order' = Append(order, name)
              /\ last' = Result("add", name, "", "", TRUE, NoErr, metadata.attempts, <<>>)
      /\ UNCHANGED <<host_fns, store, instances>>

\* link (lines 184-258).
link ==
  LET r == LinkFrom(items, instances, order, 1)
  IN  /\ Len(r.instances) <= MaxInstances
      /\ items' = r.items
      /\ instances' = r.instances
      /\ last' = Result("link", IF r.ok THEN <<>> ELSE order[r.at], "", "",
                        r.ok, r.err, r.at, <<>>)
      /\ UNCHANGED <<host_fns, order, store>>

\* init (lines 260-271).
init ==
  LET r == InitFrom(items, instances, order, 1, store, <<>>)
  IN  /\ store' = r.store
      /\ last' = Result("init", <<>>, "", "", r.ok, r.err, 0, r.trace)
      /\ UNCHANGED <<host_fns, items, order, instances>>

\* call (lines 274-283).
call(plug, func, sig) ==
  LET f == get_func_with_id(items, instances, plug, func, sig)
      entered == set_current_id(store, f.id)
      r == RunFunc(instances, f.inst, func, entered.id)
  IN  /\ IF ~f.ok
         THEN /\ last' = Result("call", plug, func, sig, FALSE, f.err, 0, <<>>)
              /\ UNCHANGED store
         ELSE /\ store' = [entered EXCEPT !.state = StateAfter(store.state, r.trace)]
              /\ last' = Result("call", plug, func, sig, ~r.trapped,
                                IF r.trapped THEN ErrTrap(func) ELSE NoErr, 0, r.trace)
      /\ UNCHANGED <<host_fns, items, order, instances>>

AddHostFn == \E func \in HostFnChoices : add_host_fn(func)

Add == \E file \in Files : add(file)

AddCore == \E file \in CoreFiles : add(file)

Call == \E plug \in PlugNames, c \in CallChoices : call(plug, c.name, c.sig)

\* Every operation of the host, over the files of the calling scenarios.
Next == AddHostFn \/ AddCore \/ link \/ init \/ Call

Spec == Init /\ [][Next]_vars

\* The operations that write the registry (host_fns, items, order and the
\* instances), over all files; init and call write none of these.
NextLink == AddHostFn \/ Add \/ link

SpecLink == Init /\ [][NextLink]_vars

AddInit == \E file \in InitFiles : add(file)

\* Registration, linking and initialization, over the files of the
\* initialization scenarios.
NextInit == AddHostFn \/ AddInit \/ link \/ init

SpecInit == Init /\ [][NextInit]_vars

AddMeta == \E file \in MetaFiles : add(file)

\* Registration and linking, over the files of the metadata scenarios.
NextMeta == AddHostFn \/ AddMeta \/ link

SpecMeta == Init /\ [][NextMeta]_vars

\* ------------------------------------------------- vocabulary of the claims

\* The positions of plugin n in the load order.
Positions(ord, n) == {k \in 1..Len(ord) : ord[k] = n}

\* The signature under which the module imports `imp`.
ImportSig(module, imp) ==
  module.imports[CHOOSE i \in 1..Len(module.imports) : module.imports[i].name = imp].sig

\* The declared dependencies of n that are registered and export `imp`.
Exporters(its, n, imp) ==
  {j \in 1..Len(its[n].deps) :
     /\ its[n].deps[j] \in DOMAIN its
     /\ Contains(its[its[n].deps[j]].exports, imp)}

\* The first of them in declaration order.
FirstExporter(its, n, imp) ==
  its[n].deps[CHOOSE j \in Exporters(its, n, imp) :
                \A i \in Exporters(its, n, imp) : j <= i]

\* Every declared dependency of the plugin at each position of the load
\* order is registered at an earlier position.
DepsEarlier(its, ord) ==
  \A k \in 1..Len(ord) : \A d \in Range(its[ord[k]].deps) :
    \E j \in 1..(k - 1) : ord[j] = d

\* Every required import of every plugin is exported by a declared dependency.
ImportsExported(its) ==
  \A n \in DOMAIN its : \A imp \in Range(its[n].imports) : Exporters(its, n, imp) # {}

\* ... and the first dependency exporting it exports a function of the
\* import's signature.
ImportsExportedTyped(its) ==
  \A n \in DOMAIN its : \A imp \in Range(its[n].imports) :
    /\ Exporters(its, n, imp) # {}
    /\ GetExport(its[FirstExporter(its, n, imp)].module, imp).kind = "func"
    /\ GetExport(its[FirstExporter(its, n, imp)].module, imp).sig
         = ImportSig(its[n].module, imp)

\* No link() has yet defined a required import in a plugin's linker.
LinkersClean(its) ==
  \A n \in DOMAIN its : \A imp \in Range(its[n].imports) :
    Key(imp) \notin DOMAIN its[n].linker

\* No plugin with required imports is listed twice in the load order.
ImportersOnce(its, ord) ==
  \A n \in DOMAIN its : its[n].imports # <<>> => Cardinality(Positions(ord, n)) = 1

\* The import `imp` of the instance of plugin n is bound to the export `imp`
\* of an instance made for the dependency d.
BoundTo(its, insts, n, imp, d) ==
  LET it == insts[its[n].instance].linker[Key(imp)]
  IN  /\ it.kind = "export"
      /\ it.name = imp
      /\ insts[it.inst].owner = its[d].id
      /\ insts[it.inst].module = its[d].module

InstantiatedAt(its, ord, k, d) ==
  its[d].instance # None \/ \E j \in 1..(k - 1) : ord[j] = d

\* C2 as stated: B registered before A, B declares A and requires an import
\* that A exports; then link() fails with the ordering error naming A and B,
\* B has no instance and no plugin registered after B is instantiated by
\* that link().
C2_AsStated ==
  [][\A B \in DOMAIN items, A \in DOMAIN items :
       (/\ last'.op = "link"
        /\ items[B].id < items[A].id
        /\ Contains(items[B].deps, A)
        /\ \E imp \in Range(items[B].imports) : Contains(items[A].exports, imp))
         => /\ ~last'.ok
            /\ last'.err = ErrOrdering(A, B)
            /\ items'[B].instance = None
            /\ \A n \in DOMAIN items :
                 items[n].id > items[B].id => items'[n].instance = items[n].instance]_vars

\* C2, amended: when link() reaches position k of the load order, held by B,
\* while A is registered but has no instance (as when A is registered after
\* B), A is B's j-th declared dependency, every dependency B declares before
\* A is registered and instantiated, and B requires an import that A exports
\* and none of those earlier dependencies exports, then link() stops at k
\* with the ordering error naming A and B, gives B no instance and
\* instantiates nothing after position k.
C2_OrderingError ==
  [][\A k \in 1..Len(order), A \in DOMAIN items :
       \A j \in 1..Len(items[order[k]].deps) :
         (/\ last'.op = "link"
          /\ last'.at >= k
          /\ items[order[k]].deps[j] = A
          /\ ~InstantiatedAt(items, order, k, A)
          /\ \A i \in 1..(j - 1) :
               /\ items[order[k]].deps[i] \in DOMAIN items
               /\ InstantiatedAt(items, order, k, items[order[k]].deps[i])
          /\ \E imp \in Range(items[order[k]].imports) :
               /\ Contains(items[A].exports, imp)
               /\ \A i \in 1..(j - 1) :
                    ~Contains(items[items[order[k]].deps[i]].exports, imp))
           => /\ ~last'.ok
              /\ last'.at = k
              /\ last'.err = ErrOrdering(A, order[k])
              /\ items'[order[k]].instance = items[order[k]].instance
              /\ Len(instances') = Len(instances) + (k - 1)]_vars

\* A link() stopped at a plugin whose dependency, registered after it, has no
\* instance, with plugins linked before it and plugins left after it.
C2_Witness ==
  /\ last.op = "link" /\ ~last.ok
  /\ last.err.kind = ErrOrdering(<<>>, <<>>).kind
  /\ last.at > 1 /\ last.at < Len(order)
  /\ last.err.plug = order[last.at]
  /\ last.err.dep \in DOMAIN items
  /\ items[last.err.plug].id < items[last.err.dep].id
  /\ items[last.err.plug].instance = None

\* ------------------------------------------------------------------- C3
\* C3 as stated, in the case that favours it (every declared dependency of P
\* is registered): when link() reaches P while a declared dependency of P
\* has no instance, link() fails at P with the ordering error naming P and
\* such a dependency, whatever P imports.
C3_AsStated ==
  [][\A k \in 1..Len(order), D \in DOMAIN items :
       (/\ last'.op = "link"
        /\ last'.at >= k
        /\ Range(items[order[k]].deps) \subseteq DOMAIN items
        /\ Contains(items[order[k]].deps, D)
        /\ ~InstantiatedAt(items, order, k, D))
         => /\ ~last'.ok
            /\ last'.at = k
            /\ \E E \in Range(items[order[k]].deps) :
                 /\ ~InstantiatedAt(items, order, k, E)
                 /\ last'.err = ErrOrdering(E, order[k])]_vars

\* ------------------------------------------------------------------- C4
\* C4 as stated, in the case that favours it (every dependency declared
\* before the absent one is registered and instantiated): a plugin declaring
\* a name absent from the registry was added, and a link() that reaches it
\* fails at it with the invalid-dependency error, whatever it imports.
C4_AsStated ==
  [][\A k \in 1..Len(order) : \A j \in 1..Len(items[order[k]].deps) :
       (/\ last'.op = "link"
        /\ last'.at >= k
        /\ items[order[k]].deps[j] \notin DOMAIN items
        /\ \A i \in 1..(j - 1) :
             /\ items[order[k]].deps[i] \in DOMAIN items
             /\ InstantiatedAt(items, order, k, items[order[k]].deps[i]))
         => /\ ~last'.ok
            /\ last'.at = k
            /\ last'.err = ErrInvalidDep(items[order[k]].deps[j])]_vars

\* ------------------------------------------------------------------- C5

\* The required imports of n that no declared dependency exports, in order.
Unexported(its, n) ==
  SelectSeq(its[n].imports, LAMBDA imp : Exporters(its, n, imp) = {})

\* C5 as stated: when link() reaches P while every declared dependency of P
\* is registered and instantiated and some required import of P is exported
\* by none of them, link() fails at P with the unresolved-import error
\* naming P and listing exactly those imports, and P has no instance.
C5_AsStated ==
  [][\A k \in 1..Len(order) :
       (/\ last'.op = "link"
        /\ last'.at >= k
        /\ \A d \in Range(items[order[k]].deps) :
             d \in DOMAIN items /\ InstantiatedAt(items, order, k, d)
        /\ Unexported(items, order[k]) # <<>>)
         => /\ ~last'.ok
            /\ last'.at = k
            /\ last'.err = ErrUnresolved(order[k], Unexported(items, order[k]))
            /\ items'[order[k]].instance = None]_vars

\* ------------------------------------------------------------------- C6

\* Every export defined in a linker is an export of an instance made for a
\* plugin that is listed in `deps`.
FromDeclared(insts, ord, linker, deps) ==
  \A key \in DOMAIN linker :
    linker[key].kind = "export" => ord[insts[linker[key].inst].owner + 1] \in Range(deps)

\* Every import that a plugin's linker or instance binds to an export is
\* bound to an export of a plugin it declares as a dependency.
BoundOnlyToDeclared(its, insts, ord) ==
  \A n \in DOMAIN its :
    /\ FromDeclared(insts, ord, its[n].linker, its[n].deps)
    /\ its[n].instance # None =>
         FromDeclared(insts, ord, insts[its[n].instance].linker, its[n].deps)

\* C6: after every link() the exports bound into the plugins are exports of
\* their declared dependencies; an import that link() defines in a plugin's
\* linker is bound to the first declared dependency exporting it, whatever
\* else exports the name; and when a required import of P is exported
\* by no declared dependency of P but by a registered plugin P does not
\* declare (linked or not), link() fails, at P or before it, and defines
\* nothing in P's linker; when it fails at P with all declared dependencies
\* of P registered and instantiated, the error is the unresolved-import
\* error listing that import.
C6_OnlyDeclaredDependencies ==
  [][last'.op = "link" =>
       /\ BoundOnlyToDeclared(items', instances', order')
       /\ \A n \in DOMAIN items : \A imp \in Range(items[n].imports) :
            (/\ Key(imp) \notin DOMAIN items[n].linker
             /\ Key(imp) \in DOMAIN items'[n].linker)
              => /\ Exporters(items, n, imp) # {}
                 /\ items'[n].linker[Key(imp)].kind = "export"
                 /\ instances'[items'[n].linker[Key(imp)].inst].owner
                      = items[FirstExporter(items, n, imp)].id
       /\ \A k \in 1..Len(order) : \A imp \in Range(items[order[k]].imports) :
            (/\ Exporters(items, order[k], imp) = {}
             /\ \E q \in DOMAIN items \ Range(items[order[k]].deps) :
                  Contains(items[q].exports, imp))
              => /\ ~last'.ok
                 /\ last'.at <= k
                 /\ items'[order[k]].linker = items[order[k]].linker
                 /\ (/\ last'.at = k
                     /\ \A d \in Range(items[order[k]].deps) :
                          d \in DOMAIN items /\ InstantiatedAt(items, order, k, d))
                      => /\ last'.err.kind = ErrUnresolved(<<>>, <<>>).kind
                         /\ last'.err.plug = order[k]
                         /\ Contains(last'.err.names, imp)]_vars

\* link() failed on an import that only an undeclared, instantiated plugin
\* exports, in a registry where two instantiated plugins export one name.
C6_Witness ==
  /\ last.op = "link" /\ ~last.ok
  /\ last.err.kind = ErrUnresolved(<<>>, <<>>).kind
  /\ \E imp \in Range(last.err.names) :
       \E q \in DOMAIN items \ Range(items[last.err.plug].deps) :
         items[q].instance # None /\ Contains(items[q].exports, imp)
  /\ \E q1 \in DOMAIN items, q2 \in DOMAIN items :
       /\ q1 # q2
       /\ items[q1].instance # None /\ items[q2].instance # None
       /\ Range(items[q1].exports) \cap Range(items[q2].exports) # {}

\* ------------------------------------------------------------------- C7
\* C7 as stated: add() of a file whose name is already registered returns
\* an error and leaves items and order as they were.
C7_AsStated ==
  [][(last'.op = "add" /\ last'.plug \in DOMAIN items)
       => (~last'.ok /\ items' = items /\ order' = order)]_vars

\* ------------------------------------------------------------------- C8

\* Which of its cases a call(plug, func) with signature sig falls in.
CaseOf(its, insts, plug, func, sig) ==
  IF plug \notin DOMAIN its THEN "unknown plugin"
  ELSE IF its[plug].instance = None THEN "not linked"
  ELSE IF ~\E i \in 1..Len(its[plug].module.exports) :
             /\ its[plug].module.exports[i].name = func
             /\ its[plug].module.exports[i].kind = "func"
  THEN "unknown function"
  ELSE IF GetExport(its[plug].module, func).sig # sig THEN "signature mismatch"
  ELSE "found"

\* What a caller can tell from the error alone.
ErrorCase(err) ==
  CASE err.kind = "Couldn't find function in plugin" -> "unknown plugin"
    [] err.kind = "Plugin hasn't been instantiated yet" -> "not linked"
    [] err.kind = "wasmtime: failed to find function export" -> "unknown function"
    [] err.kind = "wasmtime: failed to convert function to given type"
         -> "signature mismatch"
    [] OTHER -> "other"

\* C8: a call() in one of the four failing cases returns an error, runs
\* nothing and leaves the context as it was, and the error tells the case.
C8_CallErrorsDistinct ==
  [][last'.op = "call" =>
       LET c == CaseOf(items, instances, last'.plug, last'.func, last'.sig)
       IN  c # "found" =>
             /\ ~last'.ok
             /\ ErrorCase(last'.err) = c
             /\ last'.trace = <<>>
             /\ store' = store]_vars

\* A call() of an export of a linked plugin under another signature failed.
C8_Witness ==
  /\ last.op = "call" /\ ~last.ok
  /\ CaseOf(items, instances, last.plug, last.func, last.sig) = "signature mismatch"
  /\ ErrorCase(last.err) = "signature mismatch"

\* ------------------------------------------------------------------- C9

\* The owner of the latest "entry" among the first i events of a trace.
RECURSIVE EnteredAt(_, _)
EnteredAt(trace, i) ==
  IF i = 0 THEN -1
  ELSE IF trace[i].kind = "entry" THEN trace[i].owner
  ELSE EnteredAt(trace, i - 1)

\* C9: a call() that finds its function, and every initializer init() runs,
\* starts executing with the active id equal to the plugin's id, and all
\* that runs until the next entry sees that id; after the operation the
\* active id is that of the plugin entered last, whatever it was before; no
\* other operation changes it.
C9_ActiveIdIsLastEntered ==
  [][/\ (/\ last'.op = "call"
         /\ CaseOf(items, instances, last'.plug, last'.func, last'.sig) = "found")
          => /\ last'.trace # <<>>
             /\ last'.trace[1].kind = "entry"
             /\ last'.trace[1].owner = items[last'.plug].id
     /\ last'.op \in {"call", "init"}
          => /\ \A i \in 1..Len(last'.trace) :
                  last'.trace[i].id = EnteredAt(last'.trace, i)
             /\ store'.id = IF last'.trace = <<>> THEN store.id
                            ELSE EnteredAt(last'.trace, Len(last'.trace))
     /\ last'.op \notin {"call", "init"} => store'.id = store.id]_vars

\* A call() returned and left the active id at the called plugin's id,
\* which is not the id the context started with.
C9_Witness ==
  /\ last.op = "call" /\ last.ok
  /\ store.id = items[last.plug].id
  /\ store.id # 0
  /\ \E i \in 1..Len(last.trace) : last.trace[i].kind = "host"

\* ------------------------------------------------------------------ C10
\* C10 as stated: a host function called by B's function, itself reached
\* from A's function through an import, sees B's id as the active id.
C10_AsStated ==
  last.op = "call" =>
    \A i \in 1..Len(last.trace) :
      (last.trace[i].kind = "host" /\ last.trace[i].owner # last.trace[1].owner)
        => last.trace[i].id = last.trace[i].owner

\* ------------------------------------------------------------------ C11

\* The plugin n exports a zero-argument, no-result initializer.
HasInit(its, n) == GetTypedFunc(its[n].module, INIT_EXPORT, SigVV).ok

\* ... and that initializer fails.
InitTraps(its, n) == Contains(GetExport(its[n].module, INIT_EXPORT).body, TRAP)

\* The entries of the load order whose plugin has an initializer.
WithInit(its, ord) == SelectSeq(ord, LAMBDA n : HasInit(its, n))

\* How many of them init() runs: up to and including the first that fails.
RunCount(its, ord) ==
  LET w == WithInit(its, ord)
      F == {i \in 1..Len(w) : InitTraps(its, w[i])}
  IN  IF F = {} THEN Len(w) ELSE CHOOSE i \in F : \A j \in F : i <= j

Entries(trace) == SelectSeq(trace, LAMBDA e : e.kind = "entry")

\* C11: with every plugin of the load order linked, init() enters, in load
\* order, the initializer of each plugin that exports one, each under that
\* plugin's id, skips the plugins without one, stops at the first
\* initializer that fails and returns its error; the shared state is what
\* the last host function called left, the earlier initializers included.
C11_InitInLoadOrder ==
  [][(/\ last'.op = "init"
      /\ \A n \in Range(order) : items[n].instance # None)
       => LET w == WithInit(items, order)
              ran == RunCount(items, order)
              entries == Entries(last'.trace)
              H == {i \in 1..Len(last'.trace) : last'.trace[i].kind = "host"}
          IN  /\ Len(entries) = ran
              /\ \A i \in 1..ran :
                   /\ entries[i].name = INIT_EXPORT
                   /\ entries[i].owner = items[w[i]].id
                   /\ entries[i].id = items[w[i]].id
              /\ last'.ok <=> \A i \in 1..Len(w) : ~InitTraps(items, w[i])
              /\ ~last'.ok => last'.err = ErrTrap(INIT_EXPORT)
              /\ store'.state = IF H = {} THEN store.state
                                ELSE last'.trace[CHOOSE i \in H : \A j \in H : j <= i].id
              /\ UNCHANGED <<items, order, instances, host_fns>>]_vars

\* init() failed at the second of three initializers: the first one ran
\* and called a host function, and the third was not entered.
C11_Witness ==
  /\ last.op = "init" /\ ~last.ok
  /\ \A n \in Range(order) : items[n].instance # None
  /\ Len(Entries(last.trace)) = 2
  /\ Len(WithInit(items, order)) = 3
  /\ last.trace[2].kind = "host"
  /\ store.state # NoState

\* ------------------------------------------------------------------ C12

\* The names the module imports from "env".
EnvImports(module) ==
  {module.imports[i].name : i \in {j \in 1..Len(module.imports) :
                                     module.imports[j].module = "env"}}

\* The names a linker binds to host functions.
HostBound(linker) == {key[2] : key \in {q \in DOMAIN linker : linker[q].kind = "host"}}

\* C12: add() binds every host function registered so far in the plugin's
\* linker and keeps the names of the host functions out of the plugin's
\* required imports; link() leaves these bindings as they are, gives them to
\* every instance it makes, whatever the dependencies export, and reports
\* none of them as unresolved.
C12_HostImportsBound ==
  [][/\ (last'.op = "add" /\ last'.ok) =>
          \A i \in 1..Len(host_fns) :
            /\ Key(host_fns[i].name) \in DOMAIN items'[last'.plug].linker
            /\ items'[last'.plug].linker[Key(host_fns[i].name)]
                 = Item(host_fns[i].sig, "host", None, host_fns[i].name)
            /\ ~Contains(items'[last'.plug].imports, host_fns[i].name)
     /\ last'.op = "link" =>
          /\ \A n \in DOMAIN items : \A h \in HostBound(items[n].linker) :
               /\ items'[n].linker[Key(h)] = items[n].linker[Key(h)]
               /\ items'[n].instance # items[n].instance =>
                    instances'[items'[n].instance].linker[Key(h)]
                      = items[n].linker[Key(h)]
          /\ last'.err.kind = ErrUnresolved(<<>>, <<>>).kind =>
               Range(last'.err.names) \cap HostBound(items[last'.err.plug].linker) = {}]_vars

\* link() instantiated a plugin that imports print, has print bound to the
\* host function and declares a linked dependency that exports print.
C12_Witness ==
  /\ last.op = "link" /\ last.ok
  /\ \E n \in DOMAIN items :
       /\ items[n].instance # None
       /\ "print" \in EnvImports(items[n].module)
       /\ instances[items[n].instance].linker[Key("print")].kind = "host"
       /\ \E d \in Range(items[n].deps) :
            /\ d \in DOMAIN items
            /\ items[d].instance # None
            /\ Contains(items[d].exports, "print")

\* ------------------------------------------------------------------ C13

\* The names of the host function table.
HostNames(fns) == {fns[i].name : i \in 1..Len(fns)}

\* C13: the required imports add() records are, each once, the names the
\* module imports that are not in the host function table; none for a
\* module without imports.
C13_RequiredImports ==
  [][(last'.op = "add" /\ last'.ok) =>
       LET p == items'[last'.plug]
           all == {p.module.imports[i].name : i \in 1..Len(p.module.imports)}
       IN  /\ Range(p.imports) = all \ HostNames(host_fns)
           /\ Cardinality(Range(p.imports)) = Len(p.imports)
           /\ p.module.imports = <<>> => p.imports = <<>>]_vars

\* add() recorded one required import for a module that imports it twice
\* and also imports a registered host function.
C13_Witness ==
  /\ last.op = "add" /\ last.ok
  /\ items[last.plug].imports = <<"f">>
  /\ Len(items[last.plug].module.imports) = 3
  /\ "print" \in HostNames(host_fns)

\* ------------------------------------------------------------------ C14

\* The bytes of the zero-terminated string at address ptr.
RECURSIVE CString(_, _)
CString(memory, ptr) ==
  IF ptr >= Len(memory) \/ memory[ptr + 1] = NUL THEN <<>>
  ELSE <<memory[ptr + 1]>> \o CString(memory, ptr + 1)

\* The characters a UTF-8 byte string encodes.
RECURSIVE Utf8Decode(_)
Utf8Decode(bytes) ==
  IF bytes = <<>> THEN <<>>
  ELSE IF Len(bytes) >= 2 /\ bytes[1] = "0xC3" /\ bytes[2] = "0xA9"
  THEN <<"U+00E9">> \o Utf8Decode(SubSeq(bytes, 3, Len(bytes)))
  ELSE <<bytes[1]>> \o Utf8Decode(Tail(bytes))

\* The names of a string of names joined by ';'.
RECURSIVE SplitNames(_, _)
SplitNames(chars, names) ==
  IF chars = <<>> THEN names
  ELSE IF Head(chars) = ";" THEN SplitNames(Tail(chars), Append(names, <<>>))
  ELSE SplitNames(Tail(chars), [names EXCEPT ![Len(names)] = Append(@, Head(chars))])

\* The names the module's dependency descriptor holds.
DeclaredNames(module) ==
  SplitNames(Utf8Decode(CString(module.memory, module.depsPtr)), << <<>> >>)

\* C14 as stated: add() records as dependencies the names of the string the
\* dependency descriptor points at, in order, when these are one or more
\* non-empty names; and no dependency for a module without the descriptor.
C14_AsStated ==
  [][(last'.op = "add" /\ last'.ok) =>
       LET p == items'[last'.plug]
       IN  /\ ~HasExport(p.module, DEPS_EXPORT) => p.deps = <<>>
           /\ (/\ GetTypedFunc(p.module, DEPS_EXPORT, SigVI).ok
               /\ \A i \in 1..Len(DeclaredNames(p.module)) :
                    DeclaredNames(p.module)[i] # <<>>)
                => p.deps = DeclaredNames(p.module)]_vars

\* ------------------------------------------------------------------ C15
\* C15 as stated: the ids of the records of the registry are exactly
\* 0..n-1 for n records, and the record named by the i-th entry of the load
\* order (counted from 0) has id i.
C15_AsStated ==
  /\ {items[n].id : n \in DOMAIN items} = 0..(Cardinality(DOMAIN items) - 1)
  /\ \A n1 \in DOMAIN items, n2 \in DOMAIN items : items[n1].id = items[n2].id => n1 = n2
  /\ \A i \in 1..Len(order) : items[order[i]].id = i - 1

\* ------------------------------------------------------------------ C16
\* C16 as stated: a record gets an instance only from a link() that
\* succeeds for it, and a record that has an instance keeps that very
\* instance through every later operation.
C16_AsStated ==
  [][\A n \in DOMAIN items :
       (n \in DOMAIN items' /\ items'[n].id = items[n].id) =>
         /\ (items[n].instance = None /\ items'[n].instance # None) => last'.op = "link"
         /\ items[n].instance # None => items'[n].instance = items[n].instance]_vars

\* ------------------------------------------------------------------ C17

\* C17: when no plugin has an instance and no name is listed twice in the
\* load order, a link() that fails at position k leaves exactly the plugins
\* before k with an instance, made by this link(), and changes nothing else
\* of the records but their linkers, nor the load order.
C17_PartiallyLinked ==
  [][(/\ last'.op = "link" /\ ~last'.ok
      /\ \A n \in DOMAIN items : items[n].instance = None
      /\ Cardinality(Range(order)) = Len(order))
       => /\ last'.at \in 1..Len(order)
          /\ \A j \in 1..Len(order) :
               /\ j < last'.at =>
                    /\ items'[order[j]].instance \in (Len(instances) + 1)..Len(instances')
                    /\ instances'[items'[order[j]].instance].owner = items[order[j]].id
               /\ j >= last'.at => items'[order[j]].instance = None
          /\ Len(instances') = Len(instances) + last'.at - 1
          /\ order' = order
          /\ DOMAIN items' = DOMAIN items
          /\ \A n \in DOMAIN items :
               /\ items'[n].id = items[n].id
               /\ items'[n].module = items[n].module
               /\ items'[n].deps = items[n].deps
               /\ items'[n].exports = items[n].exports
               /\ items'[n].imports = items[n].imports]_vars

\* A first link() failed at the third plugin: the two before it are linked,
\* the third is not.
C17_Witness ==
  /\ last.op = "link" /\ ~last.ok /\ last.at = 3
  /\ Cardinality(Range(order)) = Len(order)
  /\ Len(instances) = 2
  /\ items[order[1]].instance = 1
  /\ items[order[2]].instance = 2
  /\ items[order[3]].instance = None

\* ------------------------------------------------------------------ C18

\* C18: every required import of a plugin that link() instantiates is
\* bound to the export of that name of the first declared dependency
\* exporting it, however many of the dependencies export it; and link()
\* defines no import a second time in the linker of a plugin listed once in
\* the load order.
C18_FirstDeclaredExporter ==
  [][last'.op = "link" =>
       /\ \A n \in DOMAIN items : \A imp \in Range(items[n].imports) :
            items'[n].instance # items[n].instance =>
              /\ Exporters(items, n, imp) # {}
              /\ BoundTo(items', instances', n, imp, FirstExporter(items, n, imp))
       /\ (/\ last'.err.kind = ErrDefinedTwice("").kind
           /\ Cardinality(Positions(order, last'.plug)) = 1)
            => Key(last'.err.func) \in DOMAIN items[last'.plug].linker]_vars

\* link() instantiated a plugin with a required import that two of its
\* declared dependencies export, both of them linked, and bound it to the
\* export of the first.
C18_Witness ==
  /\ last.op = "link" /\ last.ok
  /\ \E n \in DOMAIN items : \E imp \in Range(items[n].imports) :
       /\ items[n].instance # None
       /\ Cardinality(Exporters(items, n, imp)) >= 2
       /\ \A j \in Exporters(items, n, imp) : items[items[n].deps[j]].instance # None
       /\ BoundTo(items, instances, n, imp, FirstExporter(items, n, imp))

\* ------------------------------------------------------------------ C19

\* The lookup of the initializer of the plugin at position k fails for
\* another reason than a missing export, and init() gets that far: no
\* initializer before it fails.
LookupFails(its, insts, ord, k) ==
  /\ CaseOf(its, insts, ord[k], INIT_EXPORT, SigVV) \in {"not linked", "signature mismatch"}
  /\ \A j \in 1..(k - 1) :
       ~(/\ CaseOf(its, insts, ord[j], INIT_EXPORT, SigVV) = "found"
         /\ InitTraps(its, ord[j]))

\* C19 as stated: init() returns an error when the lookup of a plugin's
\* initializer fails because the plugin has no instance or because the
\* export has another signature.
C19_AsStated ==
  [][(/\ last'.op = "init"
      /\ \E k \in 1..Len(order) : LookupFails(items, instances, order, k))
       => ~last'.ok]_vars

\* ------------------------------------------------------------------ C20

\* The distinct imports of a module.
DistinctImports(module) == {ImportKey(module.imports[i]) : i \in 1..Len(module.imports)}

\* C20 as stated: the instantiation loop of add()'s metadata extraction
\* ends with an instantiation that succeeds or with a returned error, and,
\* when it succeeds, after at most n + 1 attempts for a module with n
\* distinct imports.
C20_AsStated ==
  [][last'.op = "add" =>
       /\ last'.at >= 1
       /\ last'.err # Panic
       /\ last'.ok =>
            last'.at <= Cardinality(DistinctImports(items'[last'.plug].module)) + 1]_vars

====
